---- MODULE Spec2Model ----
(***************************************************************************)
(* Model of src/app.py: the Streamlit script that loads a spreadsheet of   *)
(* coffee-shop revision records, coerces its cells, parses the             *)
(* inter-revision period, filters by year and store, derives the gram      *)
(* deviation and the counter flag, classifies every row and builds the     *)
(* aggregate charts.  One behaviour of the model is one run of the script  *)
(* on one input file.                                                      *)
(*                                                                         *)
(* Encoding.                                                               *)
(*  - Text is a sequence of one-character strings.                         *)
(*  - A raw spreadsheet cell is [kind, text]: kind "empty" (no value),     *)
(*    "str" (text) or "num" (a number, held as its decimal text).          *)
(*  - A typed value is a set with at most one element: {} is the missing   *)
(*    value (NaN, NaT, None) and {v} is the value v, so that a comparison  *)
(*    with a missing value is false, as it is for NaN in Python.           *)
(*  - Numbers are decimal fixed point in tenths (9.6 is 96): the slider    *)
(*    moves in steps of 0.1.  Binary floating-point rounding of a          *)
(*    difference such as 9.3 - 9.0 is not modelled.                        *)
(*  - A timestamp is [y, m, d].                                            *)
(*  - The column labels, Ukrainian in the source, are given English names: *)
(*    the order of REQUIRED_COLUMNS is that of app.py lines 19-28.         *)
(***************************************************************************)
EXTENDS Integers, Sequences, FiniteSets, TLC

(***************************************************************************)
(* Bounds of the model.                                                    *)
(***************************************************************************)
\* Largest number of rows of a table in TableFiles.
MaxRows == 2
\* Largest number of "-"-separated parts of a period text in PeriodFiles.
MaxParts == 3

(***************************************************************************)
(* Missing values and typed values.                                        *)
(***************************************************************************)
NaN == {}
NaT == {}

Num(n) == {n}

isna(x) == x = {}

ValueOf(x) == CHOOSE v \in x : TRUE

\* x < k, x > k, x == k on a float that may be NaN: false when x is NaN.
LessThan(x, k) == \E v \in x : v < k
GreaterThan(x, k) == \E v \in x : v > k
EqualTo(x, k) == \E v \in x : v = k

\* abs(x): NaN stays NaN.
Abs(x) == {IF v < 0 THEN -v ELSE v : v \in x}

\* x - k: NaN stays NaN.
Minus(x, k) == {v - k : v \in x}

(***************************************************************************)
(* Text helpers: str.split, str.replace, decimal parsing.                  *)
(***************************************************************************)
Digits == {"0", "1", "2", "3", "4", "5", "6", "7", "8", "9"}

DigitVal(c) ==
    CASE c = "0" -> 0 [] c = "1" -> 1 [] c = "2" -> 2 [] c = "3" -> 3
      [] c = "4" -> 4 [] c = "5" -> 5 [] c = "6" -> 6 [] c = "7" -> 7
      [] c = "8" -> 8 [] c = "9" -> 9

IsDigits(s) == Len(s) > 0 /\ \A i \in 1..Len(s) : s[i] \in Digits

RECURSIVE NatOf(_)
NatOf(s) ==
    IF s = <<>> THEN 0
    ELSE 10 * NatOf(SubSeq(s, 1, Len(s) - 1)) + DigitVal(s[Len(s)])

\* val.split(sep): the parts of s between the occurrences of sep.
RECURSIVE split(_, _)
split(s, sep) ==
    IF \A i \in 1..Len(s) : s[i] # sep THEN <<s>>
    ELSE LET i == CHOOSE k \in 1..Len(s) :
                      s[k] = sep /\ \A j \in 1..(k - 1) : s[j] # sep
         IN <<SubSeq(s, 1, i - 1)>> \o split(SubSeq(s, i + 1, Len(s)), sep)

\* s.replace(old, new) for one-character old and new.
replace(s, old, new) == [i \in 1..Len(s) |-> IF s[i] = old THEN new ELSE s[i]]

\* "-".join(parts)
RECURSIVE join(_)
join(parts) ==
    IF Len(parts) = 0 THEN <<>>
    ELSE IF Len(parts) = 1 THEN parts[1]
    ELSE parts[1] \o <<"-">> \o join(Tail(parts))

(***************************************************************************)
(* Raw cells.                                                              *)
(***************************************************************************)
EmptyCell == [kind |-> "empty", text |-> <<>>]
StrCell(t) == [kind |-> "str", text |-> t]
NumCell(t) == [kind |-> "num", text |-> t]

(***************************************************************************)
(* pd.to_numeric(col, errors="coerce") on one cell (app.py line 64).       *)
(* The decimal texts [-]digits[.digit] are numbers, in tenths; an empty    *)
(* cell and any other text become NaN.                                     *)
(***************************************************************************)
IsDecimal(t) ==
    LET u == IF Len(t) > 0 /\ t[1] = "-" THEN Tail(t) ELSE t
    IN \/ IsDigits(u)
       \/ /\ Len(u) >= 3
          /\ u[Len(u) - 1] = "."
          /\ u[Len(u)] \in Digits
          /\ IsDigits(SubSeq(u, 1, Len(u) - 2))

DecimalOf(t) ==
    LET neg == Len(t) > 0 /\ t[1] = "-"
        u == IF neg THEN Tail(t) ELSE t
        mag == IF IsDigits(u) THEN 10 * NatOf(u)
               ELSE 10 * NatOf(SubSeq(u, 1, Len(u) - 2)) + DigitVal(u[Len(u)])
    IN IF neg THEN -mag ELSE mag

to_numeric(cell) ==
    IF cell.kind = "empty" THEN NaN
    ELSE IF IsDecimal(cell.text) THEN Num(DecimalOf(cell.text))
    ELSE NaN

(***************************************************************************)
(* pd.to_datetime(text, dayfirst=True) on one text (app.py lines 48, 49,   *)
(* 66).  The empty text and the text "NaT" give NaT without an error; a    *)
(* text DD.MM.YYYY naming a calendar day gives that day; any other text    *)
(* raises.  The result is [raised, value].  The input sets below hold no   *)
(* text that pandas reads in another of its formats.                       *)
(***************************************************************************)
NatStrings == {<<>>, <<"N", "a", "T">>}

IsLeap(y) == (y % 4 = 0 /\ y % 100 # 0) \/ y % 400 = 0

DaysInMonth(y, m) ==
    IF m = 2 THEN (IF IsLeap(y) THEN 29 ELSE 28)
    ELSE IF m \in {4, 6, 9, 11} THEN 30 ELSE 31

IsDottedDate(t) ==
    /\ Len(t) = 10
    /\ t[3] = "." /\ t[6] = "."
    /\ IsDigits(SubSeq(t, 1, 2)) /\ IsDigits(SubSeq(t, 4, 5))
    /\ IsDigits(SubSeq(t, 7, 10))
    /\ LET d == NatOf(SubSeq(t, 1, 2))
           m == NatOf(SubSeq(t, 4, 5))
           y == NatOf(SubSeq(t, 7, 10))
       IN m \in 1..12 /\ y >= 1 /\ d >= 1 /\ d <= DaysInMonth(y, m)

to_datetime(t) ==
    IF t \in NatStrings THEN [raised |-> FALSE, value |-> NaT]
    ELSE IF IsDottedDate(t)
    THEN [raised |-> FALSE,
          value |-> {[y |-> NatOf(SubSeq(t, 7, 10)),
                      m |-> NatOf(SubSeq(t, 4, 5)),
                      d |-> NatOf(SubSeq(t, 1, 2))]}]
    ELSE [raised |-> TRUE, value |-> NaT]

\* The day number of a timestamp (days since 1970-01-01).
Ordinal(ts) ==
    LET y == IF ts.m <= 2 THEN ts.y - 1 ELSE ts.y
        era == y \div 400
        yoe == y - era * 400
        mp == IF ts.m > 2 THEN ts.m - 3 ELSE ts.m + 9
        doy == (153 * mp + 2) \div 5 + ts.d - 1
        doe == yoe * 365 + yoe \div 4 - yoe \div 100 + doy
    IN era * 146097 + doe - 719468

\* (end - start).days: NaN as soon as one of the two is NaT.
DaysBetween(start, end) ==
    {Ordinal(e) - Ordinal(s) : <<s, e>> \in start \X end}

(***************************************************************************)
(* parse_revision_period (app.py lines 43-52).  The result is              *)
(* <<start, end, days>>.                                                   *)
(***************************************************************************)
AllMissing == <<NaT, NaT, NaN>>

parse_revision_period(val) ==
    IF val.kind = "empty" THEN AllMissing
    ELSE IF val.kind # "str" THEN AllMissing   \* val.split: AttributeError
    ELSE LET parts == split(val.text, "-")
         IN IF Len(parts) # 2 THEN AllMissing  \* unpacking: ValueError
            ELSE LET start == to_datetime(replace(parts[1], ",", "."))
                     end == to_datetime(replace(parts[2], ",", "."))
                 IN IF start.raised \/ end.raised THEN AllMissing
                    ELSE <<start.value, end.value,
                           DaysBetween(start.value, end.value)>>

(***************************************************************************)
(* Columns (app.py lines 18-38), under English names:                      *)
(*   date (line 19), period_raw (20), store_id (21), stock_value (22),     *)
(*   revenue (23), cups_result (24), actual_portion_grams (25),            *)
(*   spill_count (26), total_result (27), reviewer_comment (28).           *)
(***************************************************************************)
REQUIRED_COLUMNS ==
    <<"date", "period_raw", "store_id", "stock_value", "revenue",
      "cups_result", "actual_portion_grams", "spill_count", "total_result",
      "reviewer_comment">>

NUMERIC_COLUMNS ==
    <<"stock_value", "revenue", "cups_result", "actual_portion_grams",
      "spill_count", "total_result">>

Range(s) == {s[i] : i \in 1..Len(s)}

(***************************************************************************)
(* Status labels and the counter flag (app.py lines 127-138).              *)
(***************************************************************************)
CRITICAL == "CRITICAL"
WARN == "WARN"
OK == "OK"
CounterFlag == "counter"
NoFlag == ""

\* Thresholds of calc_status, in tenths of a gram (0.5 and 0.3).
UpperThreshold == 5
LowerThreshold == 3

\* The slider of the target grammage, in tenths (7.0, 11.0, default 9.0).
SliderMin == 70
SliderMax == 110
SliderDefault == 90

\* The number of stores the ranking chart keeps: head(10).
TopN == 10

(***************************************************************************)
(* Input texts.                                                            *)
(***************************************************************************)
Txt_05_03_2023 == <<"0", "5", ".", "0", "3", ".", "2", "0", "2", "3">>
Txt_01_02_2024 == <<"0", "1", ".", "0", "2", ".", "2", "0", "2", "4">>
Txt_15_02_2024 == <<"1", "5", ".", "0", "2", ".", "2", "0", "2", "4">>
Txt_15c02c2024 == <<"1", "5", ",", "0", "2", ",", "2", "0", "2", "4">>
Txt_31_02_2024 == <<"3", "1", ".", "0", "2", ".", "2", "0", "2", "4">>
Txt_not == <<"n", "o", "t">>
Txt_NaT == <<"N", "a", "T">>
Txt_x == <<"x">>

\* The slider positions the model tries: both ends, the default and 10.0.
SliderValues == {SliderMin, SliderDefault, 100, SliderMax}

\* A complete, well-formed record.
BaseRow ==
    [date |-> StrCell(Txt_01_02_2024),
     period_raw |-> StrCell(join(<<Txt_01_02_2024, Txt_15_02_2024>>)),
     store_id |-> "A",
     stock_value |-> NumCell(<<"1", "0">>),
     revenue |-> NumCell(<<"5", "0">>),
     cups_result |-> NumCell(<<"2">>),
     actual_portion_grams |-> NumCell(<<"9", ".", "0">>),
     spill_count |-> NumCell(<<"3">>),
     total_result |-> NumCell(<<"5">>),
     reviewer_comment |-> "ok"]

(***************************************************************************)
(* TableFiles: tables of 1..MaxRows records over two years, an unreadable  *)
(* date and two stores.  The sheet holds at least one record and every     *)
(* record names its store.                                                 *)
(***************************************************************************)
TableDates ==
    {[date |-> StrCell(Txt_05_03_2023),
      total_result |-> NumCell(<<"-", "5">>),
      actual_portion_grams |-> NumCell(<<"9", ".", "6">>),
      cups_result |-> NumCell(<<"2">>),
      period_raw |-> StrCell(join(<<Txt_01_02_2024, Txt_15c02c2024>>))],
     [date |-> StrCell(Txt_01_02_2024),
      total_result |-> NumCell(<<"5">>),
      actual_portion_grams |-> EmptyCell,
      cups_result |-> NumCell(<<"-", "1">>),
      period_raw |-> StrCell(Txt_01_02_2024 \o <<"-">>)],
     [date |-> StrCell(Txt_not),
      total_result |-> StrCell(Txt_x),
      actual_portion_grams |-> NumCell(<<"9", ".", "4">>),
      cups_result |-> EmptyCell,
      period_raw |-> EmptyCell]}

TableRows ==
    {[c \in DOMAIN BaseRow |->
        IF c = "store_id" THEN s
        ELSE IF c \in DOMAIN d THEN d[c]
        ELSE BaseRow[c]] : d \in TableDates, s \in {"A", "B"}}

RECURSIVE SeqsUpTo(_, _)
SeqsUpTo(S, n) ==
    IF n = 0 THEN {<<>>}
    ELSE LET shorter == SeqsUpTo(S, n - 1)
         IN shorter \cup {Append(t, x) : t \in shorter, x \in S}

AllColumns == Range(REQUIRED_COLUMNS)

TableFiles ==
    {[columns |-> AllColumns, rows |-> t] :
        t \in SeqsUpTo(TableRows, MaxRows) \ {<<>>}}

(***************************************************************************)
(* RowFiles: one record, its four decisive numeric cells varied.           *)
(***************************************************************************)
TotalCells ==
    {NumCell(<<"-", "5">>), NumCell(<<"0">>), NumCell(<<"5">>), EmptyCell}

ActualCells ==
    {EmptyCell, StrCell(Txt_x)} \cup
    {NumCell(t) : t \in {<<"8", ".", "4">>, <<"8", ".", "5">>,
                         <<"8", ".", "6">>, <<"8", ".", "7">>,
                         <<"9", ".", "0">>, <<"9", ".", "3">>,
                         <<"9", ".", "4">>, <<"9", ".", "5">>,
                         <<"9", ".", "6">>, <<"1", "1", ".", "5">>}}

SpillCells == {EmptyCell, NumCell(<<"0">>), NumCell(<<"3">>)}

RevenueCells ==
    {EmptyCell, NumCell(<<"0">>), NumCell(<<"5", "0">>), NumCell(<<"-", "5">>)}

RowFiles ==
    {[columns |-> AllColumns,
      rows |-> <<[BaseRow EXCEPT !.total_result = t,
                                 !.actual_portion_grams = a,
                                 !.spill_count = s,
                                 !.revenue = r]>>] :
        t \in TotalCells, a \in ActualCells, s \in SpillCells,
        r \in RevenueCells}

(***************************************************************************)
(* PeriodFiles: one record, its period cell varied: empty, a number, or    *)
(* 1..MaxParts parts joined by "-".                                        *)
(***************************************************************************)
PeriodParts ==
    {Txt_01_02_2024, Txt_15c02c2024, Txt_31_02_2024, Txt_not, Txt_NaT, <<>>}

PeriodCells ==
    {EmptyCell, NumCell(<<"5">>)} \cup
    {StrCell(join(p)) : p \in SeqsUpTo(PeriodParts, MaxParts) \ {<<>>}}

PeriodFiles ==
    {[columns |-> AllColumns,
      rows |-> <<[BaseRow EXCEPT !.period_raw = p]>>] : p \in PeriodCells}

(***************************************************************************)
(* HeaderFiles: one record under a header that lacks some of the required  *)
(* columns and may hold a column the script does not know.                 *)
(***************************************************************************)
HeaderFiles ==
    {[columns |-> (AllColumns \ dropped) \cup extra,
      rows |-> <<[c \in (AllColumns \ dropped) \cup extra |->
                    IF c \in AllColumns THEN BaseRow[c] ELSE "n"]>>] :
        dropped \in (SUBSET AllColumns) \ {{}}, extra \in {{}, {"note"}}}

InputFiles == TableFiles \cup RowFiles \cup PeriodFiles \cup HeaderFiles

NoFile == [columns |-> {}, rows |-> <<>>]

(***************************************************************************)
(* State of one run of the script.                                         *)
(***************************************************************************)
VARIABLES
    pc,              \* the position of the run in the script
    source,          \* "uploaded": a file is given; "none": no file at all
    file,            \* the spreadsheet: its header and its raw records
    df,              \* the table df
    error,           \* the columns st.error names, in order
    years,           \* the options of the year filter
    tts,             \* the options of the store filter
    selected_years,  \* the years the user selected
    selected_tts,    \* the stores the user selected
    target_gram,     \* the slider's value
    trend,           \* chart: sum of total_result by date
    top10,           \* chart: sum of total_result by store, first ten
    cups,            \* chart: sums of cups_result and spill_count by date
    avg_gram         \* chart: mean actual_portion_grams by store

vars ==
    <<pc, source, file, df, error, years, tts, selected_years, selected_tts,
      target_gram, trend, top10, cups, avg_gram>>

filterVars == <<years, tts, selected_years, selected_tts>>
chartVars == <<trend, top10, cups, avg_gram>>

Init ==
    /\ pc = "start"
    /\ \/ source = "uploaded" /\ file \in InputFiles
       \/ source = "none" /\ file = NoFile
    /\ df = <<>>
    /\ error = <<>>
    /\ years = {}
    /\ tts = {}
    /\ selected_years = {}
    /\ selected_tts = {}
    /\ target_gram = SliderDefault
    /\ trend = <<>>
    /\ top10 = <<>>
    /\ cups = <<>>
    /\ avg_gram = <<>>

(***************************************************************************)
(* Lines 81-91: without an uploaded or a default file the script warns     *)
(* and stops.  (The default file, line 87, goes through the same           *)
(* load_data as an uploaded one.)                                          *)
(***************************************************************************)
NoFileStop ==
    /\ pc = "start"
    /\ source = "none"
    /\ pc' = "stopped"
    /\ UNCHANGED <<source, file, df, error, filterVars, target_gram, chartVars>>

(***************************************************************************)
(* load_data, line 56: df = pd.read_excel(file).                           *)
(***************************************************************************)
ReadExcel ==
    /\ pc = "start"
    /\ source = "uploaded"
    /\ df' = file.rows
    /\ pc' = "read"
    /\ UNCHANGED <<source, file, error, filterVars, target_gram, chartVars>>

(***************************************************************************)
(* load_data, lines 58-61: the required columns the table lacks; if there  *)
(* is one, st.error names them and st.stop() ends the run.                 *)
(***************************************************************************)
\* Mutant: only the first absent column is reported.
MissingColumns_firstOnly(columns) ==
    LET m == SelectSeq(REQUIRED_COLUMNS, LAMBDA c : c \notin columns)
    IN SubSeq(m, 1, IF Len(m) < 1 THEN Len(m) ELSE 1)

MissingColumns(columns) ==
    SelectSeq(REQUIRED_COLUMNS, LAMBDA c : c \notin columns)

MissingColumnsStop ==
    /\ pc = "read"
    /\ MissingColumns(file.columns) # <<>>
    /\ error' = MissingColumns(file.columns)
    /\ pc' = "stopped"
    /\ UNCHANGED <<source, file, df, filterVars, target_gram, chartVars>>

(***************************************************************************)
(* load_data, lines 63-66: every numeric column through to_numeric, the    *)
(* date column through to_datetime, both with errors="coerce".             *)
(***************************************************************************)
CoerceDate(cell) ==
    IF cell.kind # "str" THEN NaT
    ELSE LET r == to_datetime(cell.text)
         IN IF r.raised THEN NaT ELSE r.value

CoerceRow(r) ==
    [c \in DOMAIN r |->
        IF c \in Range(NUMERIC_COLUMNS) THEN to_numeric(r[c])
        ELSE IF c = "date" THEN CoerceDate(r[c])
        ELSE r[c]]

CoerceColumns ==
    /\ pc = "read"
    /\ MissingColumns(file.columns) = <<>>
    /\ df' = [i \in 1..Len(df) |-> CoerceRow(df[i])]
    /\ pc' = "coerced"
    /\ UNCHANGED <<source, file, error, filterVars, target_gram, chartVars>>

(***************************************************************************)
(* load_data, lines 68-73: the three period columns, from                  *)
(* parse_revision_period of every record's period text.                    *)
(***************************************************************************)
WithPeriod(r) ==
    LET p == parse_revision_period(r.period_raw)
    IN r @@ [period_start |-> p[1], period_end |-> p[2], period_days |-> p[3]]

ParsePeriods ==
    /\ pc = "coerced"
    /\ df' = [i \in 1..Len(df) |-> WithPeriod(df[i])]
    /\ pc' = "loaded"
    /\ UNCHANGED <<source, file, error, filterVars, target_gram, chartVars>>

(***************************************************************************)
(* Lines 96-102: the year column, the options of the two filters (the      *)
(* years that are not missing, the stores) and the user's selections,      *)
(* which default to every option.  The options are held as sets: their     *)
(* order only orders the widget.                                           *)
(***************************************************************************)
YearOf(date) == {ts.y : ts \in date}

WithYear(r) == r @@ [year |-> YearOf(r.date)]

YearOptions(table) ==
    {ValueOf(table[i].year) : i \in {j \in 1..Len(table) : ~isna(table[j].year)}}

StoreOptions(table) == {table[i].store_id : i \in 1..Len(table)}

BuildFilters ==
    /\ pc = "loaded"
    /\ df' = [i \in 1..Len(df) |-> WithYear(df[i])]
    /\ years' = YearOptions(df')
    /\ tts' = StoreOptions(df')
    /\ selected_years' \in SUBSET years'
    /\ selected_tts' \in SUBSET tts'
    /\ pc' = "filters"
    /\ UNCHANGED <<source, file, error, target_gram, chartVars>>

(***************************************************************************)
(* Lines 104-107: df = df[year.isin(selected_years) & store.isin(...)].    *)
(***************************************************************************)
\* Mutant: a missing value passes the membership test.
isin_missingPasses(x, selection) == isna(x) \/ \E v \in x : v \in selection

isin(x, selection) == \E v \in x : v \in selection

\* Mutant: the two conditions joined by "or".
Retained_either(r, selYears, selStores) ==
    isin(r.year, selYears) \/ r.store_id \in selStores

Retained(r, selYears, selStores) ==
    isin(r.year, selYears) /\ r.store_id \in selStores

FilterRows(table, selYears, selStores) ==
    SelectSeq(table, LAMBDA r : Retained(r, selYears, selStores))

ApplyFilter ==
    /\ pc = "filters"
    /\ df' = FilterRows(df, selected_years, selected_tts)
    /\ pc' = "filtered"
    /\ UNCHANGED <<source, file, error, filterVars, target_gram, chartVars>>

(***************************************************************************)
(* Lines 112-129: the slider's value, the gram deviation and the counter   *)
(* flag of every record of df.                                             *)
(***************************************************************************)
\* Mutant: a missing grammage is filled with zero before the subtraction.
GramDeviation_fillZero(actual, target) ==
    Minus(IF isna(actual) THEN Num(0) ELSE actual, target)

GramDeviation(actual, target) == Minus(actual, target)

\* Mutant: the lenient variant, without the revenue guard.
CounterIssue_noRevenueGuard(spill_count, revenue) ==
    IF isna(spill_count) \/ EqualTo(spill_count, 0) THEN CounterFlag ELSE NoFlag

\* Mutant: a missing spill count is not taken for a zero.
CounterIssue_spillRequired(spill_count, revenue) ==
    IF EqualTo(spill_count, 0) /\ GreaterThan(revenue, 0)
    THEN CounterFlag
    ELSE NoFlag

CounterIssue(spill_count, revenue) ==
    IF (isna(spill_count) \/ EqualTo(spill_count, 0)) /\ GreaterThan(revenue, 0)
    THEN CounterFlag
    ELSE NoFlag

WithMetrics(r, target) ==
    r @@ [gram_deviation |-> GramDeviation(r.actual_portion_grams, target),
          counter_issue |-> CounterIssue(r.spill_count, r.revenue)]

DeriveMetrics ==
    /\ pc = "filtered"
    /\ target_gram' \in SliderValues
    /\ df' = [i \in 1..Len(df) |-> WithMetrics(df[i], target_gram')]
    /\ pc' = "derived"
    /\ UNCHANGED <<source, file, error, filterVars, chartVars>>

(***************************************************************************)
(* Lines 131-140: calc_status, and df.apply(calc_status, axis=1) assigned  *)
(* to the status column.  On a table without records pandas does not call  *)
(* calc_status on a record: depending on the release, apply returns an     *)
(* empty series (the assignment succeeds) or a copy of the empty table     *)
(* (the assignment of a table to one column raises ValueError).            *)
(***************************************************************************)
\* Mutant: the rule on total_result tried last instead of first.
calc_status_overrideLast(row) ==
    IF GreaterThan(Abs(row.gram_deviation), UpperThreshold) THEN CRITICAL
    ELSE IF GreaterThan(Abs(row.gram_deviation), LowerThreshold) THEN WARN
    ELSE IF LessThan(row.total_result, 0) THEN CRITICAL
    ELSE OK

\* Mutant: the thresholds of the 1-gram/2-gram bucket scheme.
calc_status_buckets(row) ==
    IF LessThan(row.total_result, 0) THEN CRITICAL
    ELSE IF GreaterThan(Abs(row.gram_deviation), 20) THEN CRITICAL
    ELSE IF GreaterThan(Abs(row.gram_deviation), 10) THEN WARN
    ELSE OK

calc_status(row) ==
    IF LessThan(row.total_result, 0) THEN CRITICAL
    ELSE IF GreaterThan(Abs(row.gram_deviation), UpperThreshold) THEN CRITICAL
    ELSE IF GreaterThan(Abs(row.gram_deviation), LowerThreshold) THEN WARN
    ELSE OK

WithStatus(r) == r @@ [status |-> calc_status(r)]

ClassifyRows ==
    /\ pc = "derived"
    /\ df # <<>>
    /\ df' = [i \in 1..Len(df) |-> WithStatus(df[i])]
    /\ pc' = "classified"
    /\ UNCHANGED <<source, file, error, filterVars, target_gram, chartVars>>

ClassifyEmptySeries ==
    /\ pc = "derived"
    /\ df = <<>>
    /\ pc' = "classified"
    /\ UNCHANGED <<source, file, df, error, filterVars, target_gram, chartVars>>

ClassifyEmptyRaises ==
    /\ pc = "derived"
    /\ df = <<>>
    /\ pc' = "error"
    /\ UNCHANGED <<source, file, df, error, filterVars, target_gram, chartVars>>

(***************************************************************************)
(* Lines 145-230: the table and the four charts.  A group sum skips the    *)
(* missing values; a group is a key that is not missing.  Equal sums keep  *)
(* the order of their keys.                                                *)
(***************************************************************************)
RECURSIVE SumSeq(_)
SumSeq(s) == IF s = <<>> THEN 0 ELSE s[1] + SumSeq(Tail(s))

\* The values of column c of a group, the missing ones dropped.
ColumnValues(group, c) ==
    LET rows == SelectSeq(group, LAMBDA r : ~isna(r[c]))
    IN [i \in 1..Len(rows) |-> ValueOf(rows[i][c])]

DateGroup(table, d) == SelectSeq(table, LAMBDA r : r.date = {d})
StoreGroup(table, s) == SelectSeq(table, LAMBDA r : r.store_id = s)

\* A stable sort of records by their integer field k, ascending.
RECURSIVE SortByKey(_)
SortByKey(s) ==
    IF s = <<>> THEN <<>>
    ELSE LET rest == SortByKey(Tail(s))
             n == Cardinality({i \in 1..Len(rest) : rest[i].k < s[1].k})
         IN SubSeq(rest, 1, n) \o <<s[1]>> \o SubSeq(rest, n + 1, Len(rest))

\* A set of records with distinct k, as a sequence ascending in k.
RECURSIVE SeqOfSet(_)
SeqOfSet(S) ==
    IF S = {} THEN <<>>
    ELSE LET x == CHOOSE y \in S : \A z \in S : y.k <= z.k
         IN <<x>> \o SeqOfSet(S \ {x})

Head10(s) == SubSeq(s, 1, IF Len(s) < TopN THEN Len(s) ELSE TopN)

\* The stores in the order of their names.
StoreOrder == <<"A", "B">>
StoreRank(s) == CHOOSE i \in 1..Len(StoreOrder) : StoreOrder[i] = s

DateGroups(table) ==
    {ValueOf(table[i].date) : i \in {j \in 1..Len(table) : ~isna(table[j].date)}}

SumByDate(table, c) ==
    SeqOfSet({[k |-> Ordinal(d), key |-> d,
               sum |-> SumSeq(ColumnValues(DateGroup(table, d), c))] :
              d \in DateGroups(table)})

SumByStore(table, c) ==
    SeqOfSet({[k |-> StoreRank(s), key |-> s,
               sum |-> SumSeq(ColumnValues(StoreGroup(table, s), c))] :
              s \in StoreOptions(table)})

Trend(table) ==
    [i \in 1..Len(SumByDate(table, "total_result")) |->
        [key |-> SumByDate(table, "total_result")[i].key,
         total_result |-> SumByDate(table, "total_result")[i].sum]]

Top10(table) ==
    LET g == SumByStore(table, "total_result")
        byDesc == SortByKey([i \in 1..Len(g) |-> [g[i] EXCEPT !.k = -g[i].sum]])
    IN Head10([i \in 1..Len(byDesc) |->
                 [key |-> byDesc[i].key, total_result |-> byDesc[i].sum]])

Cups(table) ==
    LET c == SumByDate(table, "cups_result")
        s == SumByDate(table, "spill_count")
    IN [i \in 1..Len(c) |->
          [key |-> c[i].key, cups_result |-> c[i].sum, spill_count |-> s[i].sum]]

\* The mean of a group is sum/n, missing when the group holds no value; the
\* groups are ranked by the number of groups of a larger mean, the missing
\* means last.
AvgGram(table) ==
    LET col == "actual_portion_grams"
        g == {[key |-> s,
               sum |-> SumSeq(ColumnValues(StoreGroup(table, s), col)),
               n |-> Len(ColumnValues(StoreGroup(table, s), col))] :
              s \in StoreOptions(table)}
        Larger(a, b) == a.n > 0 /\ (b.n = 0 \/ a.sum * b.n > b.sum * a.n)
        ranked == SeqOfSet({[k |-> StoreRank(x.key), key |-> x.key,
                             sum |-> x.sum, n |-> x.n,
                             rank |-> Cardinality({y \in g : Larger(y, x)})] :
                            x \in g})
        sorted == SortByKey([i \in 1..Len(ranked) |->
                               [ranked[i] EXCEPT !.k = ranked[i].rank]])
    IN [i \in 1..Len(sorted) |->
          [key |-> sorted[i].key, sum |-> sorted[i].sum, n |-> sorted[i].n]]

PresentCharts ==
    /\ pc = "classified"
    /\ trend' = Trend(df)
    /\ top10' = Top10(df)
    /\ cups' = Cups(df)
    /\ avg_gram' = AvgGram(df)
    /\ pc' = "done"
    /\ UNCHANGED <<source, file, df, error, filterVars, target_gram>>

Next ==
    \/ NoFileStop
    \/ ReadExcel
    \/ MissingColumnsStop
    \/ CoerceColumns
    \/ ParsePeriods
    \/ BuildFilters
    \/ ApplyFilter
    \/ DeriveMetrics
    \/ ClassifyRows
    \/ ClassifyEmptySeries
    \/ ClassifyEmptyRaises
    \/ PresentCharts

Spec == Init /\ [][Next]_vars

(***************************************************************************)
(* Vocabulary of the properties.                                           *)
(***************************************************************************)
\* The table load_data returns, with the year column, computed from the file.
Loaded ==
    [i \in 1..Len(file.rows) |-> WithYear(WithPeriod(CoerceRow(file.rows[i])))]

LoadedColumns == AllColumns \cup {"period_start", "period_end", "period_days", "year"}
DerivedColumns == {"gram_deviation", "counter_issue", "status"}

\* A record of df without the columns added after the filter.
AsLoaded(r) == [c \in LoadedColumns |-> r[c]]

Rows == 1..Len(df)

BeforeFilter == pc \in {"start", "read", "coerced", "loaded", "filters"}
FilterApplied == pc \in {"filtered", "derived", "classified", "done", "error"}
MetricsDerived == pc \in {"derived", "classified", "done", "error"}
StatusAssigned == pc \in {"classified", "done"}
PeriodsParsed ==
    pc \in {"loaded", "filters", "filtered", "derived", "classified", "done", "error"}

StatusSet == {CRITICAL, WARN, OK}

\* |x| > k for a deviation x that may be missing, written out.
Exceeds(x, k) == \E v \in x : v > k \/ v < -k

(***************************************************************************)
(* C1.  Every classified record has exactly one status of CRITICAL, WARN,  *)
(* OK, chosen by the first rule that matches: total_result < 0 gives       *)
(* CRITICAL whatever the other fields are; else |gram_deviation| > 0.5     *)
(* gives CRITICAL; else |gram_deviation| > 0.3 gives WARN; else OK.        *)
(* (0.5 and 0.3 are 5 and 3 tenths.)                                       *)
(***************************************************************************)
C1_StatusPrecedence ==
    StatusAssigned =>
        \A i \in Rows :
            LET r == df[i]
                neg == \E v \in r.total_result : v < 0
            IN /\ r.status \in StatusSet
               /\ neg => r.status = CRITICAL
               /\ (~neg /\ Exceeds(r.gram_deviation, 5)) => r.status = CRITICAL
               /\ (~neg /\ ~Exceeds(r.gram_deviation, 5)
                        /\ Exceeds(r.gram_deviation, 3)) => r.status = WARN
               /\ (~neg /\ ~Exceeds(r.gram_deviation, 3)) => r.status = OK

\* A loss-making record whose deviation alone would give WARN is CRITICAL.
C1_Witness ==
    /\ StatusAssigned
    /\ \E i \in Rows :
          /\ \E v \in df[i].total_result : v < 0
          /\ df[i].gram_deviation = {4}
          /\ df[i].status = CRITICAL

(***************************************************************************)
(* C2.  A record whose actual_portion_grams is missing has a missing       *)
(* gram_deviation, and its status is CRITICAL if total_result < 0 and OK   *)
(* otherwise, for every target grammage.                                   *)
(***************************************************************************)
C2_MissingGramsFallBack ==
    /\ MetricsDerived =>
          \A i \in Rows :
              df[i].actual_portion_grams = {} => df[i].gram_deviation = {}
    /\ StatusAssigned =>
          \A i \in Rows :
              df[i].actual_portion_grams = {} =>
                  df[i].status =
                      IF \E v \in df[i].total_result : v < 0 THEN CRITICAL ELSE OK

\* A record without grammage and without a loss is OK at the slider's maximum.
C2_Witness ==
    /\ StatusAssigned
    /\ target_gram = SliderMax
    /\ \E i \in Rows :
          /\ df[i].actual_portion_grams = {}
          /\ df[i].total_result = {0}
          /\ df[i].gram_deviation = {}
          /\ df[i].status = OK

(***************************************************************************)
(* C3.  parse_revision_period is all-or-nothing: of every record, either   *)
(* start, end and days are all defined, with days = end - start in days,   *)
(* or all three are missing; all three are missing when the period text    *)
(* is missing, has not exactly two parts, or has a part (an empty one      *)
(* included) that is not a date.                                           *)
(***************************************************************************)
C3_PeriodAllOrNothing ==
    PeriodsParsed =>
        \A i \in Rows :
            LET r == df[i]
                cell == r.period_raw
                parts == split(cell.text, "-")
                IsDate(t) == IsDottedDate(replace(t, ",", "."))
            IN /\ \/ /\ r.period_start # {} /\ r.period_end # {}
                     /\ r.period_days =
                            {Ordinal(ValueOf(r.period_end))
                               - Ordinal(ValueOf(r.period_start))}
                  \/ r.period_start = {} /\ r.period_end = {} /\ r.period_days = {}
               /\ (\/ cell.kind # "str"
                   \/ Len(parts) # 2
                   \/ \E k \in 1..Len(parts) : ~IsDate(parts[k]))
                  => (r.period_start = {} /\ r.period_end = {} /\ r.period_days = {})

(***************************************************************************)
(* C4.  counter_issue is set if and only if spill_count is missing or 0    *)
(* and revenue > 0: set for spill_count 0 and revenue 50, not set for      *)
(* spill_count 0 and revenue 0, not set when revenue is missing or         *)
(* spill_count is a number other than 0.                                   *)
(***************************************************************************)
C4_CounterIssueIff ==
    MetricsDerived =>
        \A i \in Rows :
            LET r == df[i]
                noSpills == r.spill_count = {} \/ r.spill_count = {0}
                earned == \E v \in r.revenue : v > 0
            IN /\ r.counter_issue \in {CounterFlag, NoFlag}
               /\ r.counter_issue = CounterFlag <=> (noSpills /\ earned)
               /\ (r.spill_count = {0} /\ r.revenue = {500})
                     => r.counter_issue = CounterFlag
               /\ (r.spill_count = {0} /\ r.revenue = {0})
                     => r.counter_issue = NoFlag
               /\ r.revenue = {} => r.counter_issue = NoFlag
               /\ (\E v \in r.spill_count : v # 0) => r.counter_issue = NoFlag

\* Both cases named by the claim occur: flagged at revenue 50, not at 0.
C4_Witness ==
    /\ MetricsDerived
    /\ \E i \in Rows :
          /\ df[i].spill_count = {0}
          /\ df[i].revenue = {500}
          /\ df[i].counter_issue = CounterFlag

(***************************************************************************)
(* C5.  When a required column is absent the run stops with an error that  *)
(* names exactly the absent required columns, before any coercion, period  *)
(* parsing, filtering, derivation or classification; when all ten are      *)
(* present the run does not stop on this check.                            *)
(***************************************************************************)
C5_MissingColumnsStopFirst ==
    LET absent == AllColumns \ file.columns
    IN /\ (pc = "stopped" /\ source = "uploaded") =>
              /\ absent # {}
              /\ Range(error) = absent
              /\ Len(error) = Cardinality(absent)
              /\ df = file.rows
              /\ years = {} /\ tts = {}
              /\ trend = <<>> /\ top10 = <<>> /\ cups = <<>> /\ avg_gram = <<>>
       /\ (source = "uploaded" /\ absent = {}) => pc # "stopped"
       /\ (source = "uploaded" /\ absent # {}) => pc \in {"start", "read", "stopped"}
       /\ pc # "stopped" => error = <<>>

\* Stopped on a file that lacks two required columns and holds a foreign one.
C5_Witness ==
    /\ pc = "stopped"
    /\ error = <<"date", "total_result">>
    /\ "note" \in file.columns

C7_MissingPropagates ==
    StatusAssigned =>
        \A i \in Rows :
            LET r == df[i]
            IN /\ r.total_result = {} => r.status \notin StatusSet
               /\ r.actual_portion_grams = {} =>
                     (r.gram_deviation = {} /\ r.status \notin StatusSet)
               /\ (r.spill_count = {} \/ r.revenue = {}) =>
                     r.counter_issue \notin {CounterFlag, NoFlag}

(***************************************************************************)
(* C7, amended.  gram_deviation is missing exactly when                    *)
(* actual_portion_grams is missing.  status and counter_issue are never    *)
(* missing: a missing total_result or gram_deviation fails its comparison  *)
(* and the remaining rules decide the status (OK when both are missing);   *)
(* a missing spill_count counts as no spills (the flag is set iff          *)
(* revenue > 0); a missing revenue leaves the flag unset.                  *)
(***************************************************************************)
C7_OnlyDeviationPropagates ==
    StatusAssigned =>
        \A i \in Rows :
            LET r == df[i]
            IN /\ r.gram_deviation = {} <=> r.actual_portion_grams = {}
               /\ r.status \in StatusSet
               /\ r.counter_issue \in {CounterFlag, NoFlag}
               /\ r.total_result = {} =>
                     r.status = IF Exceeds(r.gram_deviation, 5) THEN CRITICAL
                                ELSE IF Exceeds(r.gram_deviation, 3) THEN WARN
                                ELSE OK
               /\ (r.total_result = {} /\ r.actual_portion_grams = {}) =>
                     r.status = OK
               /\ r.spill_count = {} =>
                     (r.counter_issue = CounterFlag <=> \E v \in r.revenue : v > 0)
               /\ r.revenue = {} => r.counter_issue = NoFlag

\* A record with neither total_result nor spill_count, and with revenue, is
\* classified and flagged.
C7_Witness ==
    /\ StatusAssigned
    /\ \E i \in Rows :
          /\ df[i].total_result = {}
          /\ df[i].spill_count = {}
          /\ df[i].revenue = {500}
          /\ df[i].status = WARN
          /\ df[i].counter_issue = CounterFlag

C9_DeviationOneAndHalfIsWarn ==
    StatusAssigned =>
        \A i \in Rows :
            (/\ target_gram = 100
             /\ df[i].actual_portion_grams = {115}
             /\ \E v \in df[i].total_result : v >= 0)
                => (df[i].gram_deviation = {15} /\ df[i].status = WARN)

(***************************************************************************)
(* C9, amended.  With a target of 10.0 g, 11.5 g per portion and           *)
(* total_result >= 0, gram_deviation is 1.5 and the status is CRITICAL:    *)
(* 1.5 exceeds the upper threshold 0.5.                                    *)
(***************************************************************************)
C9_DeviationOneAndHalfIsCritical ==
    StatusAssigned =>
        \A i \in Rows :
            (/\ target_gram = 100
             /\ df[i].actual_portion_grams = {115}
             /\ \E v \in df[i].total_result : v >= 0)
                => (df[i].gram_deviation = {15} /\ df[i].status = CRITICAL)

C9_Witness ==
    /\ StatusAssigned
    /\ target_gram = 100
    /\ \E i \in Rows :
          /\ df[i].actual_portion_grams = {115}
          /\ df[i].total_result = {50}
          /\ df[i].gram_deviation = {15}

(***************************************************************************)
(* C10.  The year options hold no missing year, so whatever is selected    *)
(* the filter removes every record whose date is missing or unreadable,    *)
(* from the table, the classification and the charts; with the default     *)
(* selections (every year and store option) the filtered table holds       *)
(* exactly the loaded records whose date was read.                         *)
(***************************************************************************)
C10_UndatedRecordsDropped ==
    /\ ~BeforeFilter => \A y \in selected_years : y \in years
    /\ FilterApplied =>
          /\ \A i \in Rows : df[i].date # {} /\ df[i].year # {}
          /\ (selected_years = years /\ selected_tts = tts) =>
                [i \in Rows |-> AsLoaded(df[i])] =
                    SelectSeq(Loaded, LAMBDA r : r.date # {})
    /\ pc = "done" =>
          /\ \A i \in 1..Len(trend) : \E j \in Rows : df[j].date = {trend[i].key}
          /\ \A i \in 1..Len(cups) : \E j \in Rows : df[j].date = {cups[i].key}

\* With the default selections a record without a date has been removed.
C10_Witness ==
    /\ pc = "filtered"
    /\ selected_years = years /\ selected_tts = tts
    /\ \E i \in 1..Len(Loaded) : Loaded[i].date = {}
    /\ Len(df) = 1 /\ Len(Loaded) = 2

====
